---- MODULE Spec2Model ----
(***************************************************************************)
(* A model of lsf_runner (src/lsf_runner/lsf_runner.py): the encoding of   *)
(* a bsub submission, the extraction of the job identifier from bsub's     *)
(* output, and the polling of a job with bjobs until it is DONE or EXIT.   *)
(*                                                                         *)
(* A Python str is a sequence of one-character strings.  Status values,    *)
(* which the code only compares and interpolates, are TLA+ strings tagged  *)
(* with their Python type, so that bytes never equal a str.                *)
(***************************************************************************)
EXTENDS Integers, Sequences, FiniteSets, TLC

VARIABLES
    pc,               \* position of the single, synchronous thread of control
    args,             \* the arguments of the run_job call
    bsub_command,     \* the argument vector run_job built (lsf_command)
    ensure_completion,\* parameter of __run_bsub_command
    printed,          \* the text of the last 'Running: ...' record
    executed,         \* the argument vector of the last bsub execution
    first_command,    \* the argument vector of the first bsub execution
    ack,              \* outcome of the last bsub execution: [rc, out]
    job,              \* the Job object of the current __run_bsub_command
    result,           \* the Job that run_job returned
    err,              \* the exception that reached the caller of run_job
    check_period,     \* parameter of the active wait_complete activation
    exit_wait_period, \* parameter of the active wait_complete activation
    wait_args,        \* the parameters of the outermost wait_complete call
    waiter,           \* who called the outermost wait_complete
    wait_depth,       \* number of nested wait_complete activations
    run_depth,        \* number of nested __run_bsub_command activations
    st,               \* local st of wait_complete: the last observation
    prev_st,          \* the observation before st
    last_query,       \* the argument vector of the last bjobs execution
    last_resp,        \* what the status channel answered to it
    last_sleep,       \* duration of the most recent time.sleep
    wait_ret,         \* the value the last finished wait_complete returned
    n_submits,        \* bsub executions so far
    n_jobs,           \* Job objects constructed at line 204 so far
    n_exits,          \* waits that returned EXIT to __run_bsub_command
    n_queries,        \* bjobs executions since the last bsub execution
    n_polls,          \* bjobs executions since run_job was called
    n_sleeps,         \* time.sleep calls since run_job was called
    n_prints,         \* 'Running: ...' records emitted so far
    first_job,        \* the Job of the outermost __run_bsub_command activation
    env,              \* the scheduler: "any", or the status it has settled on
    rendered          \* the string a resource builder returned

vars == <<pc, args, bsub_command, ensure_completion, printed, executed,
          first_command, ack, job, result, err, check_period,
          exit_wait_period, wait_args, waiter, wait_depth, run_depth, st,
          prev_st, last_query, last_resp, last_sleep, wait_ret, n_submits,
          n_jobs, n_exits, n_queries, n_polls, n_sleeps, n_prints, first_job,
          env, rendered>>

----------------------------------------------------------------------------
(* Bounds of the model.                                                    *)

\* status queries explored per run_job call
MaxPolls == 5
\* nested wait_complete activations explored
MaxWaitDepth == 3
\* bsub executions explored per run_job call
MaxSubmits == 3
\* length of the texts given to retrieve_bsub_job_id on its own
MaxTextLen == 6
\* largest identifier whose decimal form is looked for in a text
MaxId == 11

----------------------------------------------------------------------------
(* Python values.                                                          *)

\* None; no str is equal to it because every element of a str is one character
None == <<"None">>

PyStr(s) == [type |-> "str", val |-> s]
PyBytes(b) == [type |-> "bytes", val |-> b]
\* a local that has not been assigned yet
Unset == [type |-> "unset", val |-> ""]

DigitChars == {"0", "1", "2", "3", "4", "5", "6", "7", "8", "9"}

DigitOf(d) == CASE d = 0 -> "0" [] d = 1 -> "1" [] d = 2 -> "2" [] d = 3 -> "3"
                [] d = 4 -> "4" [] d = 5 -> "5" [] d = 6 -> "6" [] d = 7 -> "7"
                [] d = 8 -> "8" [] d = 9 -> "9"

ValueOf(c) == CASE c = "0" -> 0 [] c = "1" -> 1 [] c = "2" -> 2 [] c = "3" -> 3
                [] c = "4" -> 4 [] c = "5" -> 5 [] c = "6" -> 6 [] c = "7" -> 7
                [] c = "8" -> 8 [] c = "9" -> 9

RECURSIVE NatToDec(_)
NatToDec(n) == IF n < 10 THEN <<DigitOf(n)>>
               ELSE NatToDec(n \div 10) \o <<DigitOf(n % 10)>>

\* str(n) of an int
str_int(n) == IF n < 0 THEN <<"-">> \o NatToDec(0 - n) ELSE NatToDec(n)

RECURSIVE int_str(_)
\* int(s) of a non-empty run of decimal digits
int_str(s) == IF Len(s) = 0 THEN 0
              ELSE 10 * int_str(SubSeq(s, 1, Len(s) - 1)) + ValueOf(s[Len(s)])

RECURSIVE join(_, _)
\* sep.join(list)
join(sep, list) == IF Len(list) = 0 THEN <<>>
                   ELSE IF Len(list) = 1 THEN list[1]
                   ELSE list[1] \o sep \o join(sep, Tail(list))

\* s.replace(old, new) for a one-character old
replace(s, old, new) == [i \in 1..Len(s) |-> IF s[i] = old THEN new ELSE s[i]]

\* os.path.join(a, b) on a POSIX system
os_path_join(a, b) ==
    IF Len(b) > 0 /\ b[1] = "/" THEN b
    ELSE IF Len(a) = 0 \/ a[Len(a)] = "/" THEN a \o b
    ELSE a \o <<"/">> \o b

----------------------------------------------------------------------------
(* Resource Specification Builder.                                         *)

bool_to_str(b) == IF b THEN <<"y", "e", "s">> ELSE <<"n", "o">>

\* None where a GpuParameters object is expected
NoGpuParameters == [type |-> "NoneType"]

\* the clauses in the order of the fields of the dataclass: memory before model
GpuParameters_str_field_order(g) ==
    LET p1 == <<<<"n", "u", "m", "=">> \o str_int(g.number)>>
        p2 == IF g.mode # None
              THEN Append(p1, <<":", "m", "o", "d", "e", "=">> \o g.mode)
              ELSE p1
        p3 == Append(p2, <<":", "j", "_", "e", "x", "c", "l", "u", "s", "i",
                           "v", "e", "=">> \o bool_to_str(g.job_exclusive))
        p4 == IF g.memory_required # None
              THEN Append(p3, <<":", "g", "m", "e", "m", "=">> \o g.memory_required)
              ELSE p3
        p5 == IF g.model # None
              THEN Append(p4, <<":", "g", "m", "o", "d", "e", "l", "=">> \o g.model)
              ELSE p4
    IN  join(<<>>, <<<<"\"">>>> \o p5 \o <<<<"\"">>>>)

\* GpuParameters.__str__
GpuParameters_str(g) ==
    LET p1 == <<<<"n", "u", "m", "=">> \o str_int(g.number)>>
        p2 == IF g.mode # None
              THEN Append(p1, <<":", "m", "o", "d", "e", "=">> \o g.mode)
              ELSE p1
        p3 == Append(p2, <<":", "j", "_", "e", "x", "c", "l", "u", "s", "i",
                           "v", "e", "=">> \o bool_to_str(g.job_exclusive))
        p4 == IF g.model # None
              THEN Append(p3, <<":", "g", "m", "o", "d", "e", "l", "=">> \o g.model)
              ELSE p3
        p5 == IF g.memory_required # None
              THEN Append(p4, <<":", "g", "m", "e", "m", "=">> \o g.memory_required)
              ELSE p4
    IN  join(<<>>, <<<<"\"">>>> \o p5 \o <<<<"\"">>>>)

\* the conversion of a value inside an f-string: a str as it is, None as 'None'
format(x) == IF x = None THEN <<"N", "o", "n", "e">> ELSE x

\* span_parameters
span_parameters(hosts) == <<"h", "o", "s", "t", "s", "=">> \o format(hosts)

\* resource_usage
resource_usage(memory) == <<"m", "e", "m", "=">> \o format(memory)

\* every tag followed by a space instead of the tags joined by spaces
resource_requirements_trailing(select, span, usage, affinity) ==
    (IF select # None THEN <<"s", "e", "l", "e", "c", "t", "[">> \o select \o <<"]", " ">>
     ELSE <<>>)
    \o (IF span # None THEN <<"s", "p", "a", "n", "[">> \o span \o <<"]", " ">> ELSE <<>>)
    \o (IF usage # None THEN <<"r", "u", "s", "a", "g", "e", "[">> \o usage \o <<"]", " ">>
        ELSE <<>>)
    \o (IF affinity # None
        THEN <<"a", "f", "f", "i", "n", "i", "t", "y", "[">> \o affinity \o <<"]", " ">>
        ELSE <<>>)

\* resource_requirements (usage is its parameter resource_usage)
resource_requirements(select, span, usage, affinity) ==
    LET p1 == IF select # None
              THEN <<<<"s", "e", "l", "e", "c", "t", "[">> \o select \o <<"]">>>>
              ELSE <<>>
        p2 == IF span # None
              THEN Append(p1, <<"s", "p", "a", "n", "[">> \o span \o <<"]">>)
              ELSE p1
        p3 == IF usage # None
              THEN Append(p2, <<"r", "u", "s", "a", "g", "e", "[">> \o usage \o <<"]">>)
              ELSE p2
        p4 == IF affinity # None
              THEN Append(p3, <<"a", "f", "f", "i", "n", "i", "t", "y", "[">>
                              \o affinity \o <<"]">>)
              ELSE p3
    IN  join(<<" ">>, p4)

----------------------------------------------------------------------------
(* Submission Encoder.                                                     *)

\* the job name used as a file name as it is
output_file_string_unreplaced(job_name) ==
    os_path_join(<<"l", "o", "g", "s">>,
                 job_name \o <<"-", "%", "J", ".", "o", "u", "t">>)

\* output_file_string with the default log_folder
output_file_string(job_name) ==
    os_path_join(<<"l", "o", "g", "s">>,
                 replace(job_name, "/", "_") \o <<"-", "%", "J", ".", "o", "u", "t">>)

\* run_job, lines 267-268: the output file the -o flag receives
output_file_of(a) ==
    IF a.output_file = None THEN output_file_string(a.job_name) ELSE a.output_file

\* the queue flag emitted whether or not a queue is given
bsub_arguments_queue_flag(a) ==
    LET b1 == <<<<"-", "J">>, a.job_name, <<"-", "o">>, output_file_of(a),
                <<"-", "n">>, str_int(a.tasks_number), <<"-", "q">>>>
        b2 == IF a.queue # None THEN Append(b1, a.queue) ELSE b1
        b3 == IF a.resource_requrements # None
              THEN b2 \o <<<<"-", "R">>, a.resource_requrements>> ELSE b2
        gpu_parameter_string ==
              IF a.gpu_parameters # NoGpuParameters THEN GpuParameters_str(a.gpu_parameters)
              ELSE <<"-">>
        b4 == IF a.use_gpu
              THEN b3 \o <<<<"-", "g", "p", "u">>, gpu_parameter_string>> ELSE b3
        b5 == IF a.hosts # None THEN b4 \o <<<<"-", "m">>, a.hosts>> ELSE b4
    IN  IF ~a.rerunnable THEN b5 \o <<<<"-", "r", "n">>>> ELSE b5

\* run_job, lines 270-288
bsub_arguments(a) ==
    LET b1 == <<<<"-", "J">>, a.job_name, <<"-", "o">>, output_file_of(a),
                <<"-", "n">>, str_int(a.tasks_number)>>
        b2 == IF a.queue # None THEN b1 \o <<<<"-", "q">>, a.queue>> ELSE b1
        b3 == IF a.resource_requrements # None
              THEN b2 \o <<<<"-", "R">>, a.resource_requrements>> ELSE b2
        gpu_parameter_string ==
              IF a.gpu_parameters # NoGpuParameters THEN GpuParameters_str(a.gpu_parameters)
              ELSE <<"-">>
        b4 == IF a.use_gpu
              THEN b3 \o <<<<"-", "g", "p", "u">>, gpu_parameter_string>> ELSE b3
        b5 == IF a.hosts # None THEN b4 \o <<<<"-", "m">>, a.hosts>> ELSE b4
    IN  IF ~a.rerunnable THEN b5 \o <<<<"-", "r", "n">>>> ELSE b5

\* run_job, line 290
lsf_command(a) == <<<<"b", "s", "u", "b">>>> \o bsub_arguments(a) \o <<a.command>>

----------------------------------------------------------------------------
(* Identifier Extractor.                                                   *)

\* the pattern <(\d+)> matches s from position i up to the '>' at position j
MatchesAt(s, i, j) ==
    /\ i >= 1 /\ j <= Len(s) /\ j >= i + 2
    /\ s[i] = "<" /\ s[j] = ">"
    /\ \A k \in (i + 1)..(j - 1) : s[k] \in DigitChars

\* the rightmost match instead of the leftmost
re_search_last(s) ==
    LET starts == {i \in 1..Len(s) : \E j \in 1..Len(s) : MatchesAt(s, i, j)}
    IN  IF starts = {} THEN None
        ELSE LET i == CHOOSE x \in starts : \A y \in starts : x >= y
                 j == CHOOSE y \in 1..Len(s) : MatchesAt(s, i, y)
             IN  <<i, j>>

\* re.search(r'<(\d+)>', s): the leftmost match as <<i, j>>, or None
re_search(s) ==
    LET starts == {i \in 1..Len(s) : \E j \in 1..Len(s) : MatchesAt(s, i, j)}
    IN  IF starts = {} THEN None
        ELSE LET i == CHOOSE x \in starts : \A y \in starts : x <= y
                 j == CHOOSE y \in 1..Len(s) : MatchesAt(s, i, y)
             IN  <<i, j>>

\* match.group(1)
group1(s, m) == SubSeq(s, m[1] + 1, m[2] - 1)

\* a placeholder identifier instead of the ValueError
retrieve_bsub_job_id_or_zero(s) ==
    LET match == re_search(s)
    IN  IF match # None
        THEN [raised |-> FALSE, value |-> int_str(group1(s, match))]
        ELSE [raised |-> FALSE, value |-> 0]

\* retrieve_bsub_job_id: the identifier, or the ValueError it raises
retrieve_bsub_job_id(s) ==
    LET match == re_search(s)
    IN  IF match # None
        THEN [raised |-> FALSE, value |-> int_str(group1(s, match))]
        ELSE [raised |-> TRUE,
              exc |-> [type |-> "ValueError",
                       msg |-> <<"N", "o", " ", "j", "o", "b", " ", "I", "D", " ",
                                 "f", "o", "u", "n", "d", " ", "i", "n", " ", "s",
                                 "t", "r", "i", "n", "g", " ", "[">> \o s \o <<"]">>]]

----------------------------------------------------------------------------
(* Job: the handle and its status query.                                   *)

\* Job.__init__
Job(job_id) == [type |-> "Job", id |-> job_id]
\* no Job object
NoJob == [type |-> "NoneType"]
\* no exception
NoErr == [type |-> "none", msg |-> <<>>]

DONE == PyStr("DONE")
EXIT == PyStr("EXIT")
PEND == PyStr("PEND")
RUN == PyStr("RUN")

\* what json.loads makes of an output that is not JSON
NotJson == [json |-> FALSE, has_records |-> FALSE, records |-> <<>>]
\* a JSON document with (or without) a RECORDS list
Doc(has_records, records) ==
    [json |-> TRUE, has_records |-> has_records, records |-> records]
\* a record with (or without) a STAT field
Record(has_stat, stat) == [has_stat |-> has_stat, STAT |-> stat]

\* the status strings the scheduler answers with
Stats == {"PEND", "RUN", "DONE", "EXIT", "SSUSP"}

\* the answers of the status channel: the exit code of bjobs (-1: it could not
\* be started), the bytes it wrote to stdout, and what json.loads makes of them
Responses ==
    {[rc |-> 0, stdout |-> "json", doc |-> Doc(TRUE, <<Record(TRUE, s)>>)] : s \in Stats}
    \cup {[rc |-> 0, stdout |-> "json", doc |-> Doc(TRUE, <<Record(FALSE, "")>>)],
          [rc |-> 0, stdout |-> "json", doc |-> Doc(TRUE, <<>>)],
          [rc |-> 0, stdout |-> "json", doc |-> Doc(FALSE, <<>>)],
          [rc |-> 0, stdout |-> "Job is not found", doc |-> NotJson],
          [rc |-> 255, stdout |-> "", doc |-> NotJson],
          [rc |-> 255, stdout |-> "EXIT", doc |-> NotJson],
          [rc |-> -1, stdout |-> "", doc |-> NotJson]}

\* the status query addressing a job by its position instead of its identifier
bjobs_command_first(self) ==
    <<<<"b", "j", "o", "b", "s">>, <<"-", "o">>, <<"a", "l", "l">>,
      <<"-", "j", "s", "o", "n">>, str_int(1)>>

\* Job.check_status, line 28: the argument vector of the status query
bjobs_command(self) ==
    <<<<"b", "j", "o", "b", "s">>, <<"-", "o">>, <<"a", "l", "l">>,
      <<"-", "j", "s", "o", "n">>, str_int(self.id)>>

\* Job.check_status, lines 27-31 and 34: str(e) of the exception, other than a
\* CalledProcessError, that the try block raises for the answer r; "" if none
query_exception(r) ==
    IF r.rc < 0 THEN "[Errno 2] No such file or directory: 'bjobs'"
    ELSE IF ~r.doc.json THEN "Expecting value: line 1 column 1 (char 0)"
    ELSE IF ~r.doc.has_records THEN "'RECORDS'"
    ELSE IF Len(r.doc.records) = 0 THEN "list index out of range"
    ELSE IF ~r.doc.records[1].has_stat THEN "'STAT'"
    ELSE ""

\* check_status without its except clauses: the failure of bjobs leaves it
check_status_uncaught(self, r) ==
    IF r.rc # 0 \/ query_exception(r) # ""
    THEN [raised |-> TRUE, exc |-> [type |-> "CalledProcessError", msg |-> <<>>]]
    ELSE [raised |-> FALSE, value |-> PyStr(r.doc.records[1].STAT)]

\* check_status returning the decoded output of the failed bjobs
check_status_decoded(self, r) ==
    IF r.rc > 0 THEN [raised |-> FALSE, value |-> PyStr(r.stdout)]
    ELSE IF query_exception(r) # ""
    THEN [raised |-> FALSE, value |-> PyStr("Exception: " \o query_exception(r))]
    ELSE [raised |-> FALSE, value |-> PyStr(r.doc.records[1].STAT)]

\* Job.check_status: the value it returns for the answer r of the status
\* channel (raised: an exception leaves it)
check_status(self, r) ==
    IF r.rc > 0 THEN [raised |-> FALSE, value |-> PyBytes(r.stdout)]
    ELSE IF query_exception(r) # ""
    THEN [raised |-> FALSE, value |-> PyStr("Exception: " \o query_exception(r))]
    ELSE [raised |-> FALSE, value |-> PyStr(r.doc.records[1].STAT)]

\* Job.wait_complete, line 37: the default parameters
DefaultCheckPeriod == 10
DefaultExitWaitPeriod == 30

\* the loop also ending on a suspended job
loop_continues_unless_suspended(s) == s # DONE /\ s # EXIT /\ s # PyStr("SSUSP")

\* the loop ending on EXIT only
loop_continues_until_exit(s) == s # EXIT

\* Job.wait_complete, line 56: the loop goes on
loop_continues(s) == s # DONE /\ s # EXIT

\* an EXIT of the loop returned as it is
exit_is_trusted(s) == FALSE

\* Job.wait_complete, line 61: after the loop, an EXIT is verified
exit_is_verified(s) == s = EXIT

\* Job.wait_complete, line 64: the re-check shows that the job restarted
appears_restarted(s) == s # EXIT

\* Job.wait_complete, line 66: the parameters of the recursive activation
restart_parameters(cp, ewp) == <<DefaultCheckPeriod, DefaultExitWaitPeriod>>

----------------------------------------------------------------------------
(* Submission Orchestrator.                                                *)

\* __run_bsub_command, line 202: the record of the invocation
running_record(command) ==
    <<"R", "u", "n", "n", "i", "n", "g", ":", " ">> \o join(<<" ">>, command)

\* a job that ended in EXIT is not submitted again
rerun_never(s) == FALSE

\* __run_bsub_command, line 210: the job is submitted again
rerun_needed(s) == s = EXIT

\* __run_bsub_command, line 212: the argument vector of the next submission
rerun_command(command) == command

\* the value of the outermost activation is that of the outermost job
returned_job_outer(inner, outer) == Job(outer.id)

\* __run_bsub_command, lines 212 and 216: what the outermost activation returns
\* when inner is the Job of the innermost activation and outer its own
returned_job(inner, outer) == Job(inner.id)

\* the outcomes of a bsub execution: its exit code and its decoded stdout
SubmitOutcomes ==
    {[rc |-> 0, out |-> <<"J", "<", "1", "2", ">", "q", "<", "3", ">">>],
     [rc |-> 0, out |-> <<"<", "7", ">">>],
     [rc |-> 0, out |-> <<"J", "<", "a", ">">>],
     [rc |-> 0, out |-> <<>>],
     [rc |-> 255, out |-> <<>>]}

\* the run_job calls whose whole life is followed
LifeInputs ==
    [command : {<<"c">>}, tasks_number : {0, 1}, job_name : {<<"a", "/", "b">>},
     queue : {None}, use_gpu : {FALSE}, gpu_parameters : {NoGpuParameters},
     resource_requrements : {None}, hosts : {None}, rerunnable : {FALSE},
     output_file : {None}, ensure_completion : BOOLEAN]

\* the parameters a caller passes to wait_complete
Periods == {<<DefaultCheckPeriod, DefaultExitWaitPeriod>>, <<5, 60>>}

\* the answer of the status channel for a job in status s
Answer(s) == [rc |-> 0, stdout |-> "json", doc |-> Doc(TRUE, <<Record(TRUE, s)>>)]

\* the answers of the status channel now: any, or only the status the job has
\* settled on
Answers == IF env = "any" THEN Responses ELSE {Answer(env)}

\* the Job on which the active wait_complete runs
Self == IF waiter = "caller" THEN result ELSE job

\* nothing has been called yet: the state apart from pc and ack
Fresh ==
    /\ args = [type |-> "none"]
    /\ bsub_command = <<>>
    /\ ensure_completion = FALSE
    /\ printed = <<>>
    /\ executed = <<>>
    /\ first_command = <<>>
    /\ job = NoJob
    /\ result = NoJob
    /\ err = NoErr
    /\ check_period = 0
    /\ exit_wait_period = 0
    /\ wait_args = <<0, 0>>
    /\ waiter = "none"
    /\ wait_depth = 0
    /\ run_depth = 0
    /\ st = Unset
    /\ prev_st = Unset
    /\ last_query = <<>>
    /\ last_resp = [rc |-> 0, stdout |-> "", doc |-> NotJson]
    /\ last_sleep = 0
    /\ wait_ret = Unset
    /\ n_submits = 0
    /\ n_jobs = 0
    /\ n_exits = 0
    /\ n_queries = 0
    /\ n_polls = 0
    /\ n_sleeps = 0
    /\ n_prints = 0
    /\ first_job = NoJob
    /\ env = "any"
    /\ rendered = <<>>

Init ==
    /\ pc = "idle"
    /\ ack = [rc |-> 0, out |-> <<>>]
    /\ Fresh

\* run_job, lines 267-291, up to the call of __run_bsub_command
run_job(a) ==
    /\ UNCHANGED <<n_sleeps, n_prints, first_job, env, rendered>>
    /\ pc = "idle"
    /\ args' = a
    /\ bsub_command' = lsf_command(a)
    /\ ensure_completion' = a.ensure_completion
    /\ run_depth' = 1
    /\ pc' = "bsub_print"
    /\ UNCHANGED <<printed, executed, first_command, ack, job, result, err,
                   check_period, exit_wait_period, wait_args, waiter, wait_depth,
                   st, prev_st, last_query, last_resp, last_sleep, wait_ret,
                   n_submits, n_jobs, n_exits, n_queries, n_polls>>

\* the record is emitted for the first submission only
print_running_first_only ==
    /\ pc = "bsub_print"
    /\ n_prints' = IF run_depth > 1 THEN n_prints ELSE n_prints + 1
    /\ printed' = IF run_depth > 1 THEN printed ELSE running_record(bsub_command)
    /\ pc' = "bsub_exec"
    /\ UNCHANGED <<args, bsub_command, ensure_completion, executed, first_command,
                   ack, job, result, err, check_period, exit_wait_period, wait_args,
                   waiter, wait_depth, run_depth, st, prev_st, last_query,
                   last_resp, last_sleep, wait_ret, n_submits, n_jobs, n_exits,
                   n_queries, n_polls, n_sleeps, first_job, env, rendered>>

\* __run_bsub_command, line 202
print_running ==
    /\ n_prints' = n_prints + 1
    /\ UNCHANGED <<n_sleeps, first_job, env, rendered>>
    /\ pc = "bsub_print"
    /\ printed' = running_record(bsub_command)
    /\ pc' = "bsub_exec"
    /\ UNCHANGED <<args, bsub_command, ensure_completion, executed, first_command,
                   ack, job, result, err, check_period, exit_wait_period, wait_args,
                   waiter, wait_depth, run_depth, st, prev_st, last_query,
                   last_resp, last_sleep, wait_ret, n_submits, n_jobs, n_exits,
                   n_queries, n_polls>>

\* __run_bsub_command, lines 203-208 and 216: the submission, the extraction of
\* the identifier, the Job, and either the return or the entry into wait_complete
submit ==
    /\ UNCHANGED <<n_sleeps, n_prints, env, rendered>>
    /\ pc = "bsub_exec"
    /\ n_submits < MaxSubmits
    /\ \E o \in SubmitOutcomes :
        LET id == retrieve_bsub_job_id(o.out)
            failed == o.rc # 0 \/ id.raised
            waits == ~failed /\ ensure_completion
        IN  /\ executed' = bsub_command
            /\ first_command' = IF n_submits = 0 THEN bsub_command ELSE first_command
            /\ n_submits' = n_submits + 1
            /\ n_queries' = 0
            /\ ack' = o
            /\ err' = IF o.rc # 0
                      THEN [type |-> "CalledProcessError", msg |-> <<>>]
                      ELSE IF id.raised THEN id.exc ELSE err
            /\ job' = IF failed THEN job ELSE Job(id.value)
            /\ first_job' = IF failed \/ run_depth > 1 THEN first_job ELSE Job(id.value)
            /\ n_jobs' = IF failed THEN n_jobs ELSE n_jobs + 1
            /\ result' = IF failed \/ waits THEN result ELSE Job(id.value)
            /\ run_depth' = IF failed \/ waits THEN run_depth ELSE 0
            /\ pc' = IF failed THEN "raised" ELSE IF waits THEN "wait_sleep" ELSE "returned"
            /\ check_period' = IF waits THEN DefaultCheckPeriod ELSE check_period
            /\ exit_wait_period' = IF waits THEN DefaultExitWaitPeriod ELSE exit_wait_period
            /\ wait_args' = IF waits THEN <<DefaultCheckPeriod, DefaultExitWaitPeriod>>
                            ELSE wait_args
            /\ waiter' = IF waits THEN "bsub" ELSE waiter
            /\ wait_depth' = IF waits THEN 1 ELSE wait_depth
    /\ UNCHANGED <<args, bsub_command, ensure_completion, printed, st, prev_st,
                   last_query, last_resp, last_sleep, wait_ret, n_exits, n_polls>>

\* the caller of run_job calls wait_complete(cp, ewp) on the Job it received
call_wait_complete(cp, ewp) ==
    /\ UNCHANGED <<n_sleeps, n_prints, first_job, env, rendered>>
    /\ pc = "returned"
    /\ check_period' = cp
    /\ exit_wait_period' = ewp
    /\ wait_args' = <<cp, ewp>>
    /\ waiter' = "caller"
    /\ wait_depth' = 1
    /\ pc' = "wait_sleep"
    /\ UNCHANGED <<args, bsub_command, ensure_completion, printed, executed,
                   first_command, ack, job, result, err, run_depth, st, prev_st,
                   last_query, last_resp, last_sleep, wait_ret, n_submits, n_jobs,
                   n_exits, n_queries, n_polls>>

\* the sleep before the first query only, none inside the loop
sleep_check_period_once ==
    /\ pc \in {"wait_sleep", "loop_sleep"}
    /\ n_sleeps' = IF pc = "wait_sleep" THEN n_sleeps + 1 ELSE n_sleeps
    /\ last_sleep' = IF pc = "wait_sleep" THEN check_period ELSE last_sleep
    /\ pc' = "poll"
    /\ UNCHANGED <<args, bsub_command, ensure_completion, printed, executed,
                   first_command, ack, job, result, err, check_period,
                   exit_wait_period, wait_args, waiter, wait_depth, run_depth, st,
                   prev_st, last_query, last_resp, wait_ret, n_submits, n_jobs,
                   n_exits, n_queries, n_polls, n_prints, first_job, env, rendered>>

\* Job.wait_complete, lines 54 and 59: time.sleep(check_period)
sleep_check_period ==
    /\ n_sleeps' = n_sleeps + 1
    /\ UNCHANGED <<n_prints, first_job, env, rendered>>
    /\ pc \in {"wait_sleep", "loop_sleep"}
    /\ last_sleep' = check_period
    /\ pc' = "poll"
    /\ UNCHANGED <<args, bsub_command, ensure_completion, printed, executed,
                   first_command, ack, job, result, err, check_period,
                   exit_wait_period, wait_args, waiter, wait_depth, run_depth, st,
                   prev_st, last_query, last_resp, wait_ret, n_submits, n_jobs,
                   n_exits, n_queries, n_polls>>

\* Job.wait_complete, lines 56-61 and 68: one status query of the loop, and what
\* the loop condition and the test after the loop make of it
poll ==
    /\ UNCHANGED <<n_sleeps, n_prints, first_job, env, rendered>>
    /\ pc = "poll"
    /\ n_polls < MaxPolls
    /\ \E r \in Answers :
        LET c == check_status(Self, r)
        IN  /\ last_query' = bjobs_command(Self)
            /\ last_resp' = r
            /\ n_queries' = n_queries + 1
            /\ n_polls' = n_polls + 1
            /\ IF c.raised
               THEN /\ err' = c.exc
                    /\ pc' = "raised"
                    /\ UNCHANGED <<st, prev_st, wait_ret>>
               ELSE /\ prev_st' = st
                    /\ st' = c.value
                    /\ err' = err
                    /\ pc' = IF loop_continues(c.value) THEN "loop_sleep"
                             ELSE IF exit_is_verified(c.value) THEN "grace_sleep"
                             ELSE "wait_return"
                    /\ wait_ret' = IF pc' = "wait_return" THEN c.value ELSE wait_ret
    /\ UNCHANGED <<args, bsub_command, ensure_completion, printed, executed,
                   first_command, ack, job, result, check_period, exit_wait_period,
                   wait_args, waiter, wait_depth, run_depth, last_sleep, n_submits,
                   n_jobs, n_exits>>

\* Job.wait_complete, line 62: time.sleep(exit_wait_period)
sleep_exit_wait_period ==
    /\ n_sleeps' = n_sleeps + 1
    /\ UNCHANGED <<n_prints, first_job, env, rendered>>
    /\ pc = "grace_sleep"
    /\ last_sleep' = exit_wait_period
    /\ pc' = "recheck"
    /\ UNCHANGED <<args, bsub_command, ensure_completion, printed, executed,
                   first_command, ack, job, result, err, check_period,
                   exit_wait_period, wait_args, waiter, wait_depth, run_depth, st,
                   prev_st, last_query, last_resp, wait_ret, n_submits, n_jobs,
                   n_exits, n_queries, n_polls>>

\* Job.wait_complete, lines 63-68: the re-check, and either the recursive
\* activation of wait_complete or the return of EXIT
recheck ==
    /\ UNCHANGED <<n_sleeps, n_prints, first_job, env, rendered>>
    /\ pc = "recheck"
    /\ n_polls < MaxPolls
    /\ \E r \in Answers :
        LET c == check_status(Self, r)
            again == ~c.raised /\ appears_restarted(c.value)
            p == restart_parameters(check_period, exit_wait_period)
        IN  /\ again => wait_depth < MaxWaitDepth
            /\ last_query' = bjobs_command(Self)
            /\ last_resp' = r
            /\ n_queries' = n_queries + 1
            /\ n_polls' = n_polls + 1
            /\ err' = IF c.raised THEN c.exc ELSE err
            /\ prev_st' = IF c.raised THEN prev_st ELSE st
            /\ st' = IF c.raised THEN st ELSE c.value
            /\ pc' = IF c.raised THEN "raised"
                     ELSE IF again THEN "wait_sleep" ELSE "wait_return"
            /\ wait_ret' = IF pc' = "wait_return" THEN c.value ELSE wait_ret
            /\ wait_depth' = IF again THEN wait_depth + 1 ELSE wait_depth
            /\ check_period' = IF again THEN p[1] ELSE check_period
            /\ exit_wait_period' = IF again THEN p[2] ELSE exit_wait_period
    /\ UNCHANGED <<args, bsub_command, ensure_completion, printed, executed,
                   first_command, ack, job, result, wait_args, waiter, run_depth,
                   last_sleep, n_submits, n_jobs, n_exits>>

\* __run_bsub_command, lines 208-216: wait_complete returned st
after_wait ==
    /\ UNCHANGED <<n_sleeps, n_prints, first_job, env, rendered>>
    /\ pc = "wait_return"
    /\ waiter = "bsub"
    /\ wait_depth' = 0
    /\ n_exits' = IF wait_ret = EXIT THEN n_exits + 1 ELSE n_exits
    /\ IF rerun_needed(wait_ret)
       THEN /\ bsub_command' = rerun_command(bsub_command)
            /\ run_depth' = run_depth + 1
            /\ pc' = "bsub_print"
            /\ UNCHANGED result
       ELSE /\ result' = returned_job(job, first_job)
            /\ run_depth' = 0
            /\ pc' = "returned"
            /\ UNCHANGED bsub_command
    /\ UNCHANGED <<args, ensure_completion, printed, executed, first_command, ack,
                   job, err, check_period, exit_wait_period, wait_args, waiter, st,
                   prev_st, last_query, last_resp, last_sleep, wait_ret, n_submits,
                   n_jobs, n_queries, n_polls>>

\* the wait_complete that the caller of run_job called returns to it
wait_returns ==
    /\ UNCHANGED <<n_sleeps, n_prints, first_job, env, rendered>>
    /\ pc = "wait_return"
    /\ waiter = "caller"
    /\ wait_depth' = 0
    /\ pc' = "waited"
    /\ UNCHANGED <<args, bsub_command, ensure_completion, printed, executed,
                   first_command, ack, job, result, err, check_period,
                   exit_wait_period, wait_args, waiter, run_depth, st, prev_st,
                   last_query, last_resp, last_sleep, wait_ret, n_submits, n_jobs,
                   n_exits, n_queries, n_polls>>

Next ==
    \/ \E a \in LifeInputs : run_job(a)
    \/ print_running
    \/ submit
    \/ \E p \in Periods : call_wait_complete(p[1], p[2])
    \/ sleep_check_period
    \/ poll
    \/ sleep_exit_wait_period
    \/ recheck
    \/ after_wait
    \/ wait_returns

Spec == Init /\ [][Next]_vars

----------------------------------------------------------------------------
(* The job lifecycle with a scheduler whose answers may settle, and with a *)
(* poller that keeps running.                                              *)

\* from now on every status query is answered with the status s
job_settles(s) ==
    /\ env = "any"
    /\ env' = s
    /\ UNCHANGED <<pc, args, bsub_command, ensure_completion, printed, executed,
                   first_command, ack, job, result, err, check_period,
                   exit_wait_period, wait_args, waiter, wait_depth, run_depth, st,
                   prev_st, last_query, last_resp, last_sleep, wait_ret, n_submits,
                   n_jobs, n_exits, n_queries, n_polls, n_sleeps, n_prints,
                   first_job, rendered>>

NextLive ==
    \/ Next
    \/ \E s \in {"DONE", "EXIT"} : job_settles(s)

\* time.sleep returns and bjobs answers: the steps of wait_complete are taken
LiveSpec ==
    /\ Init
    /\ [][NextLive]_vars
    /\ WF_vars(sleep_check_period)
    /\ WF_vars(poll)
    /\ WF_vars(sleep_exit_wait_period)
    /\ WF_vars(recheck)

----------------------------------------------------------------------------
(* retrieve_bsub_job_id on its own: every text over TextChars.             *)

TextChars == {"<", ">", "0", "1", "a"}

Texts == UNION {[1..n -> TextChars] : n \in 0..MaxTextLen}

InitExtract ==
    /\ pc = "output"
    /\ ack \in {[rc |-> 0, out |-> s] : s \in Texts}
    /\ Fresh

\* __run_bsub_command, lines 203-204, for the output ack.out of a successful
\* bsub: the identifier is extracted and the Job made, or the error raised
extract ==
    /\ UNCHANGED <<n_sleeps, n_prints, first_job, env, rendered>>
    /\ pc = "output"
    /\ LET id == retrieve_bsub_job_id(ack.out)
       IN  /\ err' = IF id.raised THEN id.exc ELSE err
           /\ job' = IF id.raised THEN job ELSE Job(id.value)
           /\ n_jobs' = IF id.raised THEN n_jobs ELSE n_jobs + 1
           /\ pc' = IF id.raised THEN "raised" ELSE "extracted"
    /\ UNCHANGED <<args, bsub_command, ensure_completion, printed, executed,
                   first_command, ack, result, check_period, exit_wait_period,
                   wait_args, waiter, wait_depth, run_depth, st, prev_st,
                   last_query, last_resp, last_sleep, wait_ret, n_submits,
                   n_exits, n_queries, n_polls>>

NextExtract == extract

SpecExtract == InitExtract /\ [][NextExtract]_vars

----------------------------------------------------------------------------
(* The argument vector of run_job on its own: every combination of the     *)
(* optional fields.                                                        *)

GpuValues ==
    {NoGpuParameters,
     [number |-> 1, mode |-> None, job_exclusive |-> TRUE,
      memory_required |-> None, model |-> None],
     [number |-> 2, mode |-> <<"s", "h">>, job_exclusive |-> FALSE,
      memory_required |-> <<"8", "G">>, model |-> <<"A", "1">>]}

EncodeInputs ==
    [command : {<<"c", " ", "d">>}, tasks_number : {-1, 0, 1, 12},
     job_name : {<<"j", "o", "b">>, <<"a", "/", "b">>, <<"/", "a", "/", "/">>},
     queue : {None, <<"q">>}, use_gpu : BOOLEAN, gpu_parameters : GpuValues,
     resource_requrements : {None, <<"s", "p", "a", "n", "[", "h", "]">>},
     hosts : {None, <<"h", "1">>}, rerunnable : BOOLEAN,
     output_file : {None, <<"o", "/", "f">>}, ensure_completion : BOOLEAN]

NextEncode == \E a \in EncodeInputs : run_job(a)

SpecEncode == Init /\ [][NextEncode]_vars

----------------------------------------------------------------------------
(* The resource builders on their own.                                     *)

\* the values of the optional fields of resource_requirements
SelectValues == {None, <<>>, <<"t", "y", "p", "e">>}
SpanValues == {None, span_parameters(<<"1">>), <<"p", "t", "i", "l", "e", "=", "2">>}
UsageValues == {None, resource_usage(<<"1", "0", "G">>), <<"n", "g", "p", "u", "s">>}
AffinityValues == {None, <<"c", "o", "r", "e">>, <<"t", "h", "r", "e", "a", "d", "*", "1">>}

\* the values of the memory parameter of resource_usage
MemoryValues == {None, <<"1", "0", "G">>, <<"5", "1", "2">>}

\* the GpuParameters objects that are rendered
GpuObjects ==
    [number : {0, 1, 2, 10}, mode : {None, <<"s", "h", "a", "r", "e", "d">>},
     job_exclusive : BOOLEAN, memory_required : {None, <<"8", "G">>},
     model : {None, <<"A", "1", "0", "0">>}]

\* a call of resource_requirements
call_resource_requirements(select, span, usage, affinity) ==
    /\ pc = "idle"
    /\ args' = [select |-> select, span |-> span, resource_usage |-> usage,
                affinity |-> affinity, memory |-> <<>>]
    /\ rendered' = resource_requirements(select, span, usage, affinity)
    /\ pc' = "requirements"
    /\ UNCHANGED <<bsub_command, ensure_completion, printed, executed,
                   first_command, ack, job, result, err, check_period,
                   exit_wait_period, wait_args, waiter, wait_depth, run_depth, st,
                   prev_st, last_query, last_resp, last_sleep, wait_ret, n_submits,
                   n_jobs, n_exits, n_queries, n_polls, n_sleeps, n_prints,
                   first_job, env>>

\* a call of resource_usage
call_resource_usage(memory) ==
    /\ pc = "idle"
    /\ args' = [memory |-> memory]
    /\ rendered' = resource_usage(memory)
    /\ pc' = "usage"
    /\ UNCHANGED <<bsub_command, ensure_completion, printed, executed,
                   first_command, ack, job, result, err, check_period,
                   exit_wait_period, wait_args, waiter, wait_depth, run_depth, st,
                   prev_st, last_query, last_resp, last_sleep, wait_ret, n_submits,
                   n_jobs, n_exits, n_queries, n_polls, n_sleeps, n_prints,
                   first_job, env>>

\* the string resource_usage returned is given to resource_requirements, as
\* its docstring advises
pass_resource_usage(span) ==
    /\ pc = "usage"
    /\ args' = [select |-> None, span |-> span, resource_usage |-> rendered,
                affinity |-> None, memory |-> args.memory]
    /\ rendered' = resource_requirements(None, span, rendered, None)
    /\ pc' = "requirements"
    /\ UNCHANGED <<bsub_command, ensure_completion, printed, executed,
                   first_command, ack, job, result, err, check_period,
                   exit_wait_period, wait_args, waiter, wait_depth, run_depth, st,
                   prev_st, last_query, last_resp, last_sleep, wait_ret, n_submits,
                   n_jobs, n_exits, n_queries, n_polls, n_sleeps, n_prints,
                   first_job, env>>

\* str(g) of a GpuParameters object
call_str(g) ==
    /\ pc = "idle"
    /\ args' = g
    /\ rendered' = GpuParameters_str(g)
    /\ pc' = "gpu"
    /\ UNCHANGED <<bsub_command, ensure_completion, printed, executed,
                   first_command, ack, job, result, err, check_period,
                   exit_wait_period, wait_args, waiter, wait_depth, run_depth, st,
                   prev_st, last_query, last_resp, last_sleep, wait_ret, n_submits,
                   n_jobs, n_exits, n_queries, n_polls, n_sleeps, n_prints,
                   first_job, env>>

NextBuild ==
    \/ \E select \in SelectValues, span \in SpanValues, usage \in UsageValues,
          affinity \in AffinityValues :
            call_resource_requirements(select, span, usage, affinity)
    \/ \E memory \in MemoryValues : call_resource_usage(memory)
    \/ \E span \in SpanValues : pass_resource_usage(span)
    \/ \E g \in GpuObjects : call_str(g)

SpecBuild == Init /\ [][NextBuild]_vars

----------------------------------------------------------------------------
(* Properties of the job lifecycle, checked under Spec.                    *)

\* the answers of the status channel that are failures: bjobs failed or could
\* not be started, or its output is not JSON or lacks RECORDS[0].STAT
Failing(r) ==
    \/ r.rc # 0
    \/ ~r.doc.json
    \/ ~r.doc.has_records
    \/ Len(r.doc.records) = 0
    \/ ~r.doc.records[1].has_stat

\* the descriptions of a failed status query that is no CalledProcessError
FailureTexts ==
    {"[Errno 2] No such file or directory: 'bjobs'",
     "Expecting value: line 1 column 1 (char 0)",
     "'RECORDS'", "list index out of range", "'STAT'"}

\* the text holds a run of digits enclosed in angle brackets
HasBracketedDigits(s) == \E i, j \in 1..Len(s) : MatchesAt(s, i, j)

\* C1: wait_complete returns only DONE or EXIT, and what it returns is the last
\* status observation it made: it never returns while that observation is PEND,
\* RUN, a suspended status or a failure.
C1_ReturnsLastTerminalObservation ==
    /\ wait_ret \in {Unset, DONE, EXIT}
    /\ pc = "wait_return" => /\ wait_ret = st
                             /\ st \in {DONE, EXIT}
                             /\ n_polls > 0

\* a wait returned DONE right after it had observed a suspended job
C1_Witness ==
    pc = "wait_return" /\ wait_ret = DONE /\ prev_st = PyStr("SSUSP")

\* C2: an EXIT observed in the poll loop is not returned: one sleep of
\* exit_wait_period and one re-check follow it; EXIT is returned only when the
\* re-check is EXIT too, and any other re-check restarts the wait from its
\* first sleep.
C2_ExitIsVerified ==
    /\ [](pc = "wait_return" /\ wait_ret = EXIT
            => st = EXIT /\ prev_st = EXIT /\ last_sleep = exit_wait_period)
    /\ [][/\ (pc = "poll" /\ pc' # "poll" /\ st' = EXIT)
                => (pc' = "grace_sleep" /\ wait_ret' = wait_ret)
          /\ pc = "grace_sleep"
                => (/\ pc' = "recheck"
                    /\ last_sleep' = exit_wait_period
                    /\ n_polls' = n_polls)
          /\ pc = "recheck"
                => (/\ n_polls' = n_polls + 1
                    /\ prev_st' = EXIT
                    /\ IF st' = EXIT
                       THEN pc' = "wait_return" /\ wait_ret' = EXIT
                       ELSE pc' = "wait_sleep" /\ wait_ret' = wait_ret)
          /\ pc = "wait_sleep"
                => (/\ pc' = "poll"
                    /\ last_sleep' = check_period
                    /\ n_polls' = n_polls)]_vars

\* a wait returned EXIT after an earlier EXIT of the same wait was not confirmed
C2_Witness ==
    pc = "wait_return" /\ wait_ret = EXIT /\ wait_depth = 2

C4_ResubmitOnExit ==
    (pc # "idle" /\ args.ensure_completion) =>
        /\ bsub_command = lsf_command(args)
        /\ n_submits > 0 => executed = first_command /\ executed = bsub_command
        /\ pc \in {"bsub_print", "bsub_exec"} =>
               /\ n_submits = n_exits
               /\ n_submits > 0 => wait_ret = EXIT
        /\ pc \notin {"bsub_print", "bsub_exec"} => n_submits = n_exits + 1
        /\ pc \in {"returned", "waited"} => n_polls > 0

\* the job was submitted as often as the model follows it
C4_Witness ==
    /\ pc = "returned"
    /\ args.ensure_completion
    /\ n_submits = MaxSubmits
    /\ n_exits = MaxSubmits - 1

\* C5: every status query carries the identifier extracted from the output of
\* the submission that made the Job, and the Job keeps that identifier, also
\* when the wait restarts.
C5_QueriesUseExtractedId ==
    LET id == retrieve_bsub_job_id(ack.out)
    IN  /\ (n_jobs > 0 /\ ack.rc = 0 /\ ~id.raised) => job = Job(id.value)
        /\ result # NoJob => result = job
        /\ n_queries > 0 =>
               /\ ack.rc = 0 /\ ~id.raised
               /\ Len(last_query) = 5
               /\ last_query[1] = <<"b", "j", "o", "b", "s">>
               /\ last_query[5] = str_int(id.value)

\* a status query made after the wait restarted
C5_Witness ==
    /\ wait_depth = 2
    /\ pc = "loop_sleep"
    /\ job.id = 12
    /\ last_query[5] = <<"1", "2">>

\* C7: a submission whose output holds no bracketed run of digits fails with
\* an error that carries the output as it is; no Job is made of it and no
\* status query is issued for it, whether it is the first submission or a
\* later one.
C7_MalformedAcknowledgement ==
    (n_submits > 0 /\ ack.rc = 0 /\ ~HasBracketedDigits(ack.out)) =>
        /\ pc = "raised"
        /\ err.type = "ValueError"
        /\ \E pre, post \in 0..Len(err.msg) :
               /\ pre + Len(ack.out) + post = Len(err.msg)
               /\ post = 1
               /\ SubSeq(err.msg, pre + 1, pre + Len(ack.out)) = ack.out
        /\ n_jobs = n_submits - 1
        /\ n_queries = 0
        /\ result = NoJob

\* a resubmission was answered without an identifier
C7_Witness ==
    /\ pc = "raised"
    /\ err.type = "ValueError"
    /\ n_submits = 2
    /\ ack.out = <<"J", "<", "a", ">">>

\* C8: run_job with a task count that is not positive fails before anything
\* is executed: no submission and no status query.
C8_NonPositiveTasksRejected ==
    (pc # "idle" /\ args.tasks_number <= 0) =>
        /\ n_submits = 0
        /\ n_polls = 0

----------------------------------------------------------------------------
(* Properties of retrieve_bsub_job_id, checked under SpecExtract.          *)

\* the text t occurs in s from position i on
OccursAt(s, t, i) == i >= 1 /\ i + Len(t) - 1 <= Len(s) /\ SubSeq(s, i, i + Len(t) - 1) = t

\* '<N>' with N in decimal digits
Bracketed(n) == <<"<">> \o str_int(n) \o <<">">>

\* C6, as claimed: from any text that contains '<N>' the extraction returns N,
\* and from a text without a bracketed run of digits it fails.
C6_ReturnsAnyBracketedId ==
    pc \in {"extracted", "raised"} =>
        /\ \A n \in 0..MaxId :
               (\E i \in 1..Len(ack.out) : OccursAt(ack.out, Bracketed(n), i))
                   => (pc = "extracted" /\ job.id = n)
        /\ ~HasBracketedDigits(ack.out) => (pc = "raised" /\ err.type = "ValueError")

\* C6, amended: from any text whose first bracketed run of digits is '<N>' the
\* extraction returns N, and from a text without a bracketed run of digits it
\* fails with an error instead of returning a value.
C6_ReturnsFirstBracketedId ==
    pc \in {"extracted", "raised"} =>
        /\ \A n \in 0..MaxId : \A i \in 1..Len(ack.out) :
               (/\ OccursAt(ack.out, Bracketed(n), i)
                /\ \A k \in 1..(i - 1) : \A j \in 1..Len(ack.out) : ~MatchesAt(ack.out, k, j))
                   => (pc = "extracted" /\ job = Job(n))
        /\ ~HasBracketedDigits(ack.out) =>
               (pc = "raised" /\ err.type = "ValueError" /\ job = NoJob)
        /\ HasBracketedDigits(ack.out) => pc = "extracted"

\* the identifier of a text with two bracketed runs of digits was extracted
C6_Witness ==
    /\ pc = "extracted"
    /\ ack.out = <<"<", "1", ">", "<", "0", ">">>
    /\ job.id = 1

----------------------------------------------------------------------------
(* Properties of the argument vector, checked under SpecEncode.            *)

\* a flag and its value when the field is set, nothing otherwise
Pair(present, flag, value) == IF present THEN <<flag, value>> ELSE <<>>

\* C10: the argument vector is bsub, -J and the job name, -o and the output
\* file, -n and the task count, then -q, -R, -gpu and -m each with its value
\* and each only when its field is set (the value of -gpu being the rendered
\* GpuParameters, or '-' when none are given), then -rn unless the job is
\* rerunnable, then the command; every flag but -rn is followed by its value.
C10_ArgumentVector ==
    pc = "bsub_print" =>
        LET v == bsub_command
            flags == {<<"-", "J">>, <<"-", "o">>, <<"-", "n">>, <<"-", "q">>,
                      <<"-", "R">>, <<"-", "g", "p", "u">>, <<"-", "m">>}
            gpu == IF args.gpu_parameters = NoGpuParameters THEN <<"-">>
                   ELSE GpuParameters_str(args.gpu_parameters)
        IN  /\ v = <<<<"b", "s", "u", "b">>,
                     <<"-", "J">>, args.job_name,
                     <<"-", "o">>, IF args.output_file = None
                                   THEN output_file_string(args.job_name)
                                   ELSE args.output_file,
                     <<"-", "n">>, str_int(args.tasks_number)>>
                   \o Pair(args.queue # None, <<"-", "q">>, args.queue)
                   \o Pair(args.resource_requrements # None, <<"-", "R">>,
                           args.resource_requrements)
                   \o Pair(args.use_gpu, <<"-", "g", "p", "u">>, gpu)
                   \o Pair(args.hosts # None, <<"-", "m">>, args.hosts)
                   \o (IF args.rerunnable THEN <<>> ELSE <<<<"-", "r", "n">>>>)
                   \o <<args.command>>
            /\ v[Len(v)] = args.command
            /\ \A i \in 1..Len(v) :
                   v[i] \in flags => (i + 1 < Len(v) /\ v[i + 1] \notin flags
                                      /\ v[i + 1] # None /\ v[i + 1] # <<"-", "r", "n">>)

\* a submission with every optional field set
C10_Witness ==
    /\ pc = "bsub_print"
    /\ args.queue # None /\ args.resource_requrements # None /\ args.hosts # None
    /\ args.use_gpu /\ args.gpu_parameters # NoGpuParameters /\ ~args.rerunnable
    /\ Len(bsub_command) = 17
    /\ bsub_command[13] \notin {<<"-">>, None}

----------------------------------------------------------------------------
(* Properties of the resource builders, checked under SpecBuild.           *)

\* the first position at which t occurs in s, or 0
Find(s, t) ==
    LET at == {i \in 1..Len(s) : OccursAt(s, t, i)}
    IN  IF at = {} THEN 0 ELSE CHOOSE i \in at : \A k \in at : i <= k

\* how often the character c occurs in s
Count(s, c) == Cardinality({i \in 1..Len(s) : s[i] = c})

\* C11: the result of resource_requirements holds the bracketed tag of a
\* predicate exactly when it was supplied, the tags stand in the order select,
\* span, rusage, affinity, and one space separates two tags, with none before
\* the first or after the last; nothing supplied gives the empty string.
C11_RequirementTags ==
    pc = "requirements" =>
        LET names == <<<<"s", "e", "l", "e", "c", "t", "[">>, <<"s", "p", "a", "n", "[">>,
                       <<"r", "u", "s", "a", "g", "e", "[">>,
                       <<"a", "f", "f", "i", "n", "i", "t", "y", "[">>>>
            given == <<args.select, args.span, args.resource_usage, args.affinity>>
            here == {k \in 1..4 : given[k] # None}
            tag(k) == names[k] \o given[k] \o <<"]">>
            size == IF here = {} THEN 0 ELSE Cardinality(here) - 1
        IN  /\ \A k \in 1..4 : (Find(rendered, names[k]) > 0) <=> (k \in here)
            /\ \A k \in here : Find(rendered, tag(k)) = Find(rendered, names[k])
            /\ \A k, l \in here :
                   k < l => Find(rendered, names[k]) + Len(tag(k)) + 1
                                <= Find(rendered, names[l])
            /\ Count(rendered, " ") = size
            /\ Count(rendered, "[") = Cardinality(here)
            /\ Count(rendered, "]") = Cardinality(here)
            /\ here = {} <=> rendered = <<>>
            /\ here # {} => rendered[1] # " " /\ rendered[Len(rendered)] = "]"

\* all four predicates were supplied
C11_Witness ==
    /\ pc = "requirements"
    /\ \A f \in {args.select, args.span, args.resource_usage, args.affinity} : f # None
    /\ Count(rendered, " ") = 3

\* C12: a GpuParameters object renders as one quoted string: the count clause,
\* then the colon-prefixed clauses mode, exclusivity, model, memory in this
\* order; mode, model and memory are there exactly when set, the exclusivity
\* clause always, with yes or no; with only a count set the string is the
\* count clause and the exclusivity clause.
C12_GpuString ==
    pc = "gpu" =>
        LET num == <<"n", "u", "m", "=">> \o str_int(args.number)
            mode == <<":", "m", "o", "d", "e", "=">>
            excl == <<":", "j", "_", "e", "x", "c", "l", "u", "s", "i", "v", "e", "=">>
                        \o (IF args.job_exclusive THEN <<"y", "e", "s">> ELSE <<"n", "o">>)
            model == <<":", "g", "m", "o", "d", "e", "l", "=">>
            mem == <<":", "g", "m", "e", "m", "=">>
            set == {f \in {"mode", "model", "mem"} :
                        \/ f = "mode" /\ args.mode # None
                        \/ f = "model" /\ args.model # None
                        \/ f = "mem" /\ args.memory_required # None}
            at(t) == Find(rendered, t)
        IN  /\ rendered[1] = "\"" /\ rendered[Len(rendered)] = "\""
            /\ Count(rendered, "\"") = 2
            /\ at(num) = 2
            /\ rendered[2 + Len(num)] = ":"
            /\ Count(rendered, ":") = 1 + Cardinality(set)
            /\ at(excl) > 0
            /\ (at(mode) > 0) <=> ("mode" \in set)
            /\ (at(model) > 0) <=> ("model" \in set)
            /\ (at(mem) > 0) <=> ("mem" \in set)
            /\ "mode" \in set => /\ at(mode \o args.mode) = 2 + Len(num)
                                 /\ at(mode) < at(excl)
            /\ "model" \in set => /\ at(model \o args.model) = at(excl) + Len(excl)
                                  /\ at(model) = at(model \o args.model)
            /\ "mem" \in set => /\ at(mem \o args.memory_required \o <<"\"">>) > at(excl)
                                /\ "model" \in set => at(mem) > at(model)
            /\ set = {} => rendered = <<"\"">> \o num \o excl \o <<"\"">>

\* an object with every field set was rendered
C12_Witness ==
    /\ pc = "gpu"
    /\ args.mode # None /\ args.model # None /\ args.memory_required # None
    /\ ~args.job_exclusive
    /\ args.number = 10
    /\ Count(rendered, ":") = 4

----------------------------------------------------------------------------
(* Properties of the output file, checked under SpecEncode.                *)

\* C13: without an output file given, the path after -o is the log folder,
\* one separator, and a file name in which every separator of the job name is
\* replaced by an underscore; the value after -J is the job name as given.
C13_OutputFileOfJobName ==
    pc = "bsub_print" =>
        /\ bsub_command[2] = <<"-", "J">>
        /\ bsub_command[3] = args.job_name
        /\ bsub_command[4] = <<"-", "o">>
        /\ args.output_file = None =>
               LET o == bsub_command[5]
                   n == Len(args.job_name)
               IN  /\ Len(o) = 5 + n + 7
                   /\ SubSeq(o, 1, 5) = <<"l", "o", "g", "s", "/">>
                   /\ SubSeq(o, 6 + n, Len(o)) = <<"-", "%", "J", ".", "o", "u", "t">>
                   /\ Count(o, "/") = 1
                   /\ \A i \in 1..n :
                          o[5 + i] = IF args.job_name[i] = "/" THEN "_"
                                     ELSE args.job_name[i]

\* a job name that starts with a separator and holds three of them
C13_Witness ==
    /\ pc = "bsub_print"
    /\ args.output_file = None
    /\ args.job_name = <<"/", "a", "/", "/">>
    /\ Count(bsub_command[3], "/") = 3
    /\ Count(bsub_command[5], "_") = 3

----------------------------------------------------------------------------
(* Further properties of the job lifecycle, checked under Spec.            *)

\* C14: in a wait that restarted, every sleep before a query of the loop still
\* has the check_period the caller gave, and every sleep before a re-check the
\* exit_wait_period the caller gave.
C14_RestartKeepsPeriods ==
    /\ pc = "poll" => last_sleep = wait_args[1]
    /\ pc = "recheck" => last_sleep = wait_args[2]

\* C15: every status query of a wait comes right after one sleep of its own,
\* the sleep before a query of the loop lasts check_period, and the query
\* that observes DONE ends the wait with DONE at once, with no further sleep:
\* k observations other than DONE and EXIT and then DONE make k+1 queries and
\* k+1 sleeps.
C15_OneSleepBeforeEachQuery ==
    /\ [](/\ n_sleeps = n_polls + (IF pc \in {"poll", "recheck"} THEN 1 ELSE 0)
          /\ pc = "poll" => last_sleep = check_period
          /\ pc = "wait_return" => n_sleeps = n_polls /\ st = wait_ret)
    /\ [][/\ n_polls' = n_polls + 1 => n_sleeps' = n_sleeps
          /\ n_polls' = n_polls + 1 => pc \in {"poll", "recheck"}
          /\ n_sleeps' = n_sleeps + 1 => n_polls' = n_polls
          /\ (pc = "poll" /\ n_polls' = n_polls + 1 /\ st' = DONE) =>
                 pc' = "wait_return" /\ wait_ret' = DONE
          /\ (pc = "wait_return" /\ wait_ret = DONE) =>
                 n_polls' = n_polls /\ n_sleeps' = n_sleeps]_vars

\* PEND, RUN and DONE observed: three queries, three sleeps
C15_Witness ==
    /\ pc = "wait_return"
    /\ wait_ret = DONE
    /\ prev_st = RUN
    /\ wait_depth = 1
    /\ n_polls = 3
    /\ n_sleeps = 3
    /\ last_sleep = check_period

\* C16: when run_job with ensure_completion returns, the last wait returned
\* DONE and the Job returned carries the identifier of the submission whose
\* wait returned DONE, the one the last status query asked about.
C16_ReturnsCompletedJob ==
    (pc = "returned" /\ ensure_completion) =>
        /\ wait_ret = DONE
        /\ st = DONE
        /\ ack.rc = 0
        /\ ~retrieve_bsub_job_id(ack.out).raised
        /\ result.id = retrieve_bsub_job_id(ack.out).value
        /\ last_query[5] = str_int(result.id)
        /\ n_exits = n_submits - 1

\* the first submission ended in EXIT and the second one, with another
\* identifier, in DONE
C16_Witness ==
    /\ pc = "returned"
    /\ ensure_completion
    /\ n_submits = 2
    /\ first_job.id = 12
    /\ result.id = 7

\* C17: every execution of the submission command comes after the emission of
\* its record, one record for each execution, and the record is the word
\* "Running:" followed by the argument vector that is executed.
C17_RecordBeforeExecution ==
    LET record(command) ==
            <<"R", "u", "n", "n", "i", "n", "g", ":">> \o
            [i \in 1..Len(join(<<" ">>, command)) + 1 |->
                IF i = 1 THEN " " ELSE join(<<" ">>, command)[i - 1]]
    IN  /\ n_prints = n_submits + (IF pc = "bsub_exec" THEN 1 ELSE 0)
        /\ pc = "bsub_exec" => printed = record(bsub_command)
        /\ n_submits > 0 => printed = record(executed)

\* the record of a resubmission has been emitted and the command is about to
\* be executed again
C17_Witness ==
    /\ pc = "bsub_exec"
    /\ n_submits = 2
    /\ n_prints = 3
    /\ n_exits = 2

\* C20: a wait never has more than one activation of wait_complete pending,
\* however often it restarts.
C20_OneActivation == wait_depth <= 1

----------------------------------------------------------------------------
(* A further property of the resource builders, checked under SpecBuild.   *)

\* C18: resource_usage without a memory value renders no memory clause, and
\* what it renders leaves no tag with a placeholder in the result of
\* resource_requirements.
C18_AbsentMemoryOmitted ==
    /\ (pc = "usage" /\ args.memory = None) =>
           Find(rendered, <<"m", "e", "m", "=">>) = 0
    /\ (pc = "requirements" /\ args.memory = None) =>
           Find(rendered, <<"N", "o", "n", "e">>) = 0

----------------------------------------------------------------------------
(* Termination of the wait, checked under LiveSpec.                        *)

\* a wait_complete is active and the bounds leave it two queries and one
\* restart
Waiting ==
    /\ pc \in {"wait_sleep", "poll", "loop_sleep", "grace_sleep", "recheck"}
    /\ n_polls + 2 <= MaxPolls
    /\ wait_depth < MaxWaitDepth

\* C19: once every status query answers DONE, an active wait_complete
\* returns DONE, and once every status query answers EXIT it returns EXIT;
\* an answer that is a failure keeps the loop going and a re-check that is
\* not EXIT starts the wait again, so that without settled answers nothing
\* makes the wait return.
C19_SettledWaitReturns ==
    /\ (env = "DONE" /\ Waiting) ~> (pc = "wait_return" /\ wait_ret = DONE)
    /\ (env = "EXIT" /\ Waiting) ~> (pc = "wait_return" /\ wait_ret = EXIT)
    /\ [][/\ (pc = "poll" /\ n_polls' = n_polls + 1 /\ Failing(last_resp')) =>
                 pc' = "loop_sleep"
          /\ (pc = "recheck" /\ n_polls' = n_polls + 1 /\ st' # EXIT) =>
                 pc' = "wait_sleep"]_vars

\* the answers settled on DONE during a wait that had seen a failure and had
\* restarted, and the wait returned DONE
C19_Witness ==
    /\ env = "DONE"
    /\ pc = "wait_return"
    /\ wait_ret = DONE
    /\ wait_depth = 2
    /\ prev_st \notin {DONE, EXIT, RUN, PEND, Unset}
    /\ n_polls = 4

====
